---------------------------- MODULE Spec2Model ----------------------------
(***************************************************************************)
(* The Client Bridge of s2.term: class StreamingTerminal of                *)
(* ts-frontend/src/main.ts, as a state machine.                            *)
(*                                                                         *)
(* The class runs on the browser's single thread.  Every `await` ends a   *)
(* run-to-completion segment; the model has one action per segment.  The   *)
(* three kinds of suspension are kept apart:                               *)
(*   - terminal writes (writeAsync/writelnAsync): xterm's write buffer is  *)
(*     first-in first-out, so the awaiting continuations resume in the     *)
(*     order of the writes (writeQ);                                       *)
(*   - S2 requests (checkTail, append, read): they settle in any order,    *)
(*     each with success or failure (net);                                 *)
(*   - the pacing timer (sleep) and the SSE iterator of the read (reader). *)
(* Labels name the source line whose await a continuation resumes from.    *)
(***************************************************************************)
EXTENDS Integers, Sequences, FiniteSets, TLC

(***************************************************************************)
(* Bounds of the model.                                                    *)
(***************************************************************************)
\* User events observed on a page that starts the interactive flow (three
\* submitted lines lead to the connection test) and on a page that has its
\* setup from the query parameters.
MaxInteractiveEvents == 3
MaxQueryEvents == 2
\* Records delivered by the read subscription of a replaying session, and
\* records of one batch.
MaxRecords == 3
MaxBatch == 2

(***************************************************************************)
(* JavaScript values.  A number is a rational n/d (d > 0), NaN or an       *)
(* infinity; undefined and null are values of their own.  Strings are      *)
(* sequences of one-character strings.                                     *)
(***************************************************************************)
Undefined == [k |-> "undefined"]
Null == [k |-> "null"]
NaN == [k |-> "NaN"]
Infinity == [k |-> "Infinity"]
NegInfinity == [k |-> "-Infinity"]
Num(n) == [k |-> "num", n |-> n, d |-> 1]
Rat(n, d) == [k |-> "num", n |-> n, d |-> d]
Str(s) == [k |-> "str", s |-> s]

IsNum(v) == v.k = "num"

\* ToBoolean: undefined, null, NaN, 0 and "" are falsy.
Truthy(v) ==
    CASE v.k = "num" -> v.n # 0
      [] v.k = "str" -> v.s # <<>>
      [] v.k \in {"Infinity", "-Infinity"} -> TRUE
      [] OTHER -> FALSE

RECURSIVE Gcd(_, _)
Gcd(a, b) == IF b = 0 THEN a ELSE Gcd(b, a % b)

Abs(x) == IF x < 0 THEN -x ELSE x

\* A rational in lowest terms with a positive denominator.
Normal(n, d) ==
    LET g == Gcd(Abs(n), Abs(d))
        s == IF d < 0 THEN -1 ELSE 1
    IN  Rat(s * (n \div g), s * (d \div g))

\* a - b on numbers (integers here: timestamps).
Minus(a, b) ==
    IF IsNum(a) /\ IsNum(b) THEN Normal(a.n * b.d - b.n * a.d, a.d * b.d) ELSE NaN

\* a + b on numbers.
Plus(a, b) ==
    IF IsNum(a) /\ IsNum(b) THEN Normal(a.n * b.d + b.n * a.d, a.d * b.d) ELSE NaN

\* a / b as IEEE division: x/0 is an infinity of x's sign, 0/0 is NaN.
Divide(a, b) ==
    IF ~(IsNum(a) /\ IsNum(b)) THEN NaN
    ELSE IF b.n = 0
         THEN IF a.n = 0 THEN NaN ELSE IF a.n > 0 THEN Infinity ELSE NegInfinity
         ELSE Normal(a.n * b.d, a.d * b.n)

\* a > 0 and a <= b, false on NaN as every comparison with NaN is.
GreaterThanZero(a) ==
    CASE a.k = "num" -> a.n > 0
      [] a.k = "Infinity" -> TRUE
      [] OTHER -> FALSE

LessEq(a, b) ==
    CASE IsNum(a) /\ IsNum(b) -> a.n * b.d <= b.n * a.d
      [] a.k = "-Infinity" /\ b.k # "NaN" -> TRUE
      [] OTHER -> FALSE

(***************************************************************************)
(* parseInt, parseFloat and String.prototype.trim.                         *)
(***************************************************************************)
Digits == <<"0", "1", "2", "3", "4", "5", "6", "7", "8", "9">>
IsDigit(c) == \E i \in 1..10 : Digits[i] = c
DigitVal(c) == (CHOOSE i \in 1..10 : Digits[i] = c) - 1
IsSpace(c) == c \in {" ", "\t", "\n"}

Drop(s, n) == SubSeq(s, n + 1, Len(s))

RECURSIVE SkipSpaces(_)
SkipSpaces(s) == IF s # <<>> /\ IsSpace(Head(s)) THEN SkipSpaces(Tail(s)) ELSE s

\* The length of the longest prefix of s made of digits.
RECURSIVE DigitRun(_)
DigitRun(s) == IF s # <<>> /\ IsDigit(Head(s)) THEN 1 + DigitRun(Tail(s)) ELSE 0

RECURSIVE DigitsValue(_, _)
DigitsValue(s, acc) ==
    IF s = <<>> THEN acc ELSE DigitsValue(Tail(s), 10 * acc + DigitVal(Head(s)))

RECURSIVE Pow10(_)
Pow10(k) == IF k = 0 THEN 1 ELSE 10 * Pow10(k - 1)

\* parseInt(s), radix 10: leading white space, a sign, then the digits up to
\* the first other character; NaN when there is no digit.
parseInt(s) ==
    LET t == SkipSpaces(s)
        neg == t # <<>> /\ Head(t) = "-"
        u == IF t # <<>> /\ Head(t) \in {"-", "+"} THEN Tail(t) ELSE t
        k == DigitRun(u)
    IN  IF k = 0 THEN NaN
        ELSE Num((IF neg THEN -1 ELSE 1) * DigitsValue(SubSeq(u, 1, k), 0))

\* parseFloat(s): leading white space, a sign, digits, then "." and digits;
\* NaN when neither part has a digit.
parseFloat(s) ==
    LET t == SkipSpaces(s)
        neg == t # <<>> /\ Head(t) = "-"
        u == IF t # <<>> /\ Head(t) \in {"-", "+"} THEN Tail(t) ELSE t
        k == DigitRun(u)
        rest == Drop(u, k)
        f == IF rest # <<>> /\ Head(rest) = "." THEN DigitRun(Tail(rest)) ELSE 0
        whole == DigitsValue(SubSeq(u, 1, k), 0)
        frac == IF f = 0 THEN 0 ELSE DigitsValue(SubSeq(rest, 2, f + 1), 0)
    IN  IF k = 0 /\ f = 0 THEN NaN
        ELSE Normal((IF neg THEN -1 ELSE 1) * (whole * Pow10(f) + frac), Pow10(f))

RECURSIVE TrimEnd(_)
TrimEnd(s) ==
    IF s # <<>> /\ IsSpace(s[Len(s)]) THEN TrimEnd(SubSeq(s, 1, Len(s) - 1)) ELSE s

trim(s) == TrimEnd(SkipSpaces(s))


\* Number.prototype.toString of a non-negative integer.
RECURSIVE toString(_)
toString(n) ==
    IF n < 10 THEN <<Digits[n + 1]>> ELSE toString(n \div 10) \o <<Digits[(n % 10) + 1]>>

(***************************************************************************)
(* Program constants and the inputs of the model.                          *)
(***************************************************************************)
\* main.ts:322, the freshness window of the live-catch-up check.
FreshnessWindowMs == 5000

\* Date.now() as read by processRecord, and the timestamps of output
\* records: wall-clock epoch milliseconds, hence positive.  With these
\* values a record can be stale, exactly on the window's edge, fresh, and in
\* the future.
Nows == {15000}
Times == {2500, 7500, 10000, 20000}

CR == "\r"
DEL == "DEL"
ESC == "ESC"
\* What terminal.onData hands over: a printable character, Enter,
\* Backspace (\u007F) and a control character.
DataValues == {"a", CR, DEL, ESC}
\* data >= ' ' && data <= '~'
IsPrintable(data) == data \in {"a", " "}

\* Viewport sizes <<cols, rows>> of the xterm widget.
Viewports == {<<80, 24>>, <<100, 40>>}
InitialViewport == <<80, 24>>

\* window.location.search: each parameter is null (absent) or a string.
Url(b, s, t, si, sp) == [basin |-> b, session |-> s, token |-> t, since |-> si, speedup |-> sp]
NoParams == Url(Null, Null, Null, Null, Null)
NoToken(si, sp) == Url(Str(<<"b">>), Str(<<"7">>), Null, si, sp)
Query(si, sp) == Url(Str(<<"b">>), Str(<<"7">>), Str(<<"k">>), si, sp)
Since2500 == Str(<<"2", "5", "0", "0">>)

\* The pages explored: a URL, with the number of user events and of
\* delivered records explored on it.  The pages of the interactive flow and
\* the page that goes live from the tail are explored with the most user
\* events; the pages that replay, with the most records and one user event.
Scenario(u, e, r) == [url |-> u, events |-> e, records |-> r]
Scenarios ==
    { Scenario(NoParams, MaxInteractiveEvents, 1),
      Scenario(NoToken(Since2500, Str(<<"5">>)), MaxInteractiveEvents, 1),
      Scenario(Query(Null, Null), MaxQueryEvents, 0),
      Scenario(Query(Str(<<"0">>), Null), 1, 1),
      Scenario(Query(Since2500, Null), 1, MaxRecords),
      Scenario(Query(Since2500, Str(<<"5">>)), 1, MaxRecords),
      Scenario(Query(Since2500, Str(<<"0", ".", "5">>)), 1, MaxRecords) }

(***************************************************************************)
(* Session addressing: the two template strings of main.ts:94-95 and       *)
(* main.ts:159-160.                                                        *)
(***************************************************************************)
\* The input stream's name built from the output stream's template.
InputStreamNameAsOutput(sessionId) == <<"sessions/">> \o sessionId \o <<"/term_output">>

InputStreamName(sessionId) == <<"sessions/">> \o sessionId \o <<"/term_input">>
OutputStreamName(sessionId) == <<"sessions/">> \o sessionId \o <<"/term_output">>

(***************************************************************************)
(* The records appended to the input log (main.ts:219-223, 239-247).  The  *)
(* record's timestamp, Date.now(), is read back by no operation of the     *)
(* class and is left out.                                                  *)
(***************************************************************************)
KeystrokeRecord(data) ==
    [body |-> <<data>>, headers |-> << <<"type", "keystroke">> >>]

\* The window record with the two sizes under each other's header.
WindowRecordSwapped(cols, rows) ==
    [body |-> <<>>,
     headers |-> << <<"type", "window">>, <<"rows", toString(cols)>>,
                    <<"cols", toString(rows)>> >>]

WindowRecord(cols, rows) ==
    [body |-> <<>>,
     headers |-> << <<"type", "window">>, <<"rows", toString(rows)>>, <<"cols", toString(cols)>> >>]

(***************************************************************************)
(* The state.                                                              *)
(***************************************************************************)
VARIABLES
    url,                  \* window.location.search, fixed for the page
    budget,               \* the user events and records explored on this page
    viewport,             \* terminal.cols, terminal.rows
    started,              \* initialize() has been called
    userEvents,           \* user events observed so far (bounded)
    observed,             \* the user events observed in STREAMING, in order
    setupState,           \* the fields of StreamingTerminal, main.ts:24-35
    currentInput,
    staleChars,           \* how many leading characters of currentInput were typed
                          \* before the prompt of the current step was issued
    basin,
    sessionNumber,
    token,
    s2,
    keystrokes_stream,
    pty_stream,
    since,
    speedup,
    lastRecordTimestamp,
    isLiveMode,
    writeQ,               \* continuations awaiting a terminal write, in write order
    net,                  \* S2 requests in flight
    nextId,               \* the next request's number, in issue order
    sent,                 \* the appends issued so far, in issue order
    inputLog,             \* the input log: the appended records, in append order
    tails,                \* the connection tests settled so far and their outcome
    reader,               \* startS2Streaming / applyS2Record / processRecord
    reads,                \* the read subscriptions opened so far
    delivered,            \* the bodies of the records delivered so far, in order
    rendered,             \* the record bodies written to the terminal, in order
    lastProcessed,        \* what processRecord did with the last record it finished
    messages              \* the status lines written to the terminal

envV == <<url, budget, viewport, started, userEvents, observed>>
configV == <<basin, sessionNumber, token, s2, keystrokes_stream, pty_stream, since, speedup>>
modeV == <<lastRecordTimestamp, isLiveMode>>
readV == <<reader, reads, delivered, rendered, lastProcessed>>
vars == <<url, budget, viewport, started, userEvents, observed, setupState, currentInput,
          staleChars, basin,
          sessionNumber, token, s2, keystrokes_stream, pty_stream, since, speedup,
          lastRecordTimestamp, isLiveMode, writeQ, net, nextId, sent, inputLog, tails,
          reader,
          reads, delivered, rendered, lastProcessed, messages>>

\* main.ts:87: the setup is taken from the query parameters.
HasQueryParams == Truthy(url.basin) /\ Truthy(url.session) /\ Truthy(url.token)

\* sentBefore: while the loop sleeps, the number of appends issued before
\* the sleep began; after a streaming error, the number issued before it.
NoReader == [pc |-> "none", origin |-> "none", batch |-> <<>>, now |-> 0,
             wasReplaying |-> FALSE, delay |-> Undefined, sentBefore |-> 0]

\* lastProcessed before any record: seqNum 0.  first and total follow the
\* replay while its timestamps have not decreased: the timestamp of its
\* first record and the time slept in all; first is 0 otherwise.
NoRecord == [seqNum |-> 0, timestamp |-> 0, now |-> 0, wasReplaying |-> FALSE,
             live |-> FALSE, last |-> Undefined, slept |-> Undefined,
             first |-> 0, total |-> Num(0)]

\* The fields as the constructor leaves them (main.ts:28-35).
Init ==
    /\ \E sc \in Scenarios :
          /\ url = sc.url
          /\ budget = [events |-> sc.events, records |-> sc.records]
    /\ viewport = InitialViewport
    /\ started = FALSE
    /\ userEvents = 0
    /\ observed = <<>>
    /\ setupState = "GREETING"
    /\ currentInput = <<>>
    /\ staleChars = 0
    /\ basin = Undefined
    /\ sessionNumber = Undefined
    /\ token = Undefined
    /\ s2 = Undefined
    /\ keystrokes_stream = Undefined
    /\ pty_stream = Undefined
    /\ since = Undefined
    /\ speedup = Num(1)
    /\ lastRecordTimestamp = Undefined
    /\ isLiveMode = FALSE
    /\ writeQ = <<>>
    /\ net = {}
    /\ nextId = 1
    /\ sent = <<>>
    /\ inputLog = <<>>
    /\ tails = <<>>
    /\ reader = NoReader
    /\ reads = <<>>
    /\ delivered = <<>>
    /\ rendered = <<>>
    /\ lastProcessed = NoRecord
    /\ messages = <<>>

(***************************************************************************)
(* Suspension on terminal writes.  Await(pc, n, origin) is the             *)
(* continuation that resumes at pc after n consecutive awaited writes, the *)
(* first of which is issued now; origin is the caller the chain returns    *)
(* to: "interactive" is handleSetupInput (main.ts:135-136), "query" is     *)
(* startSetupFlow (main.ts:106).                                           *)
(***************************************************************************)
Await(pc, n, origin) == [pc |-> pc, hops |-> n, origin |-> origin]

Resumes(pc) == writeQ # <<>> /\ Head(writeQ).pc = pc /\ Head(writeQ).hops = 1

\* The first write of the head continuation completed: its next awaited
\* write is issued, behind the writes already buffered.
NextWrite ==
    /\ writeQ # <<>>
    /\ Head(writeQ).hops > 1
    /\ writeQ' = Append(Tail(writeQ), [Head(writeQ) EXCEPT !.hops = @ - 1])
    /\ UNCHANGED <<envV, configV, modeV, readV, setupState, currentInput, staleChars, net,
                   nextId, sent,
                   inputLog, tails, messages>>

Request(kind, origin, arg, cont) ==
    [id |-> nextId, kind |-> kind, origin |-> origin, arg |-> arg, cont |-> cont]

\* The prompt of a setup step is issued (main.ts:109, 152, 161, 207): what
\* currentInput holds now was typed before it.
PromptIssued == staleChars' = Len(currentInput)

(***************************************************************************)
(* initialize and startSetupFlow, main.ts:57-113.                          *)
(***************************************************************************)
\* main.ts:57-76: the terminal is opened and the banner's first line written.
initialize ==
    /\ ~started
    /\ started' = TRUE
    /\ writeQ' = Append(writeQ, Await("L80", 2, "query"))
    /\ UNCHANGED <<url, budget, viewport, userEvents, observed, configV, modeV, readV, setupState,
                   currentInput, staleChars, net, nextId, sent, inputLog, tails, messages>>

\* main.ts:80-103, the query parameters are used.
startSetupFlowQuery ==
    /\ Resumes("L80")
    /\ HasQueryParams
    /\ basin' = url.basin
    /\ sessionNumber' = url.session
    /\ token' = url.token
    /\ since' = IF Truthy(url.since) THEN parseInt(url.since.s) ELSE Undefined
    /\ speedup' = IF Truthy(url.speedup) THEN parseFloat(url.speedup.s) ELSE Num(1)
    /\ keystrokes_stream' = Str(InputStreamName(url.session.s))
    /\ pty_stream' = Str(OutputStreamName(url.session.s))
    /\ writeQ' = Append(Tail(writeQ),
                        Await("L105", IF Truthy(since') THEN 5 ELSE 3, "query"))
    /\ UNCHANGED <<envV, modeV, readV, s2, setupState, currentInput, staleChars, net, nextId, sent,
                   inputLog, tails, messages>>

\* main.ts:108-111, the interactive flow starts.
startSetupFlowInteractive ==
    /\ Resumes("L80")
    /\ ~HasQueryParams
    /\ setupState' = "COLLECTING_BASIN"
    /\ PromptIssued
    /\ writeQ' = Tail(writeQ)
    /\ UNCHANGED <<envV, configV, modeV, readV, currentInput, net, nextId, sent, inputLog, tails,
                   messages>>

\* testS2Connection up to its await of checkTail, main.ts:175-184.
TestStart(origin, q) ==
    /\ s2' = [accessToken |-> token]
    /\ net' = net \cup {Request("checkTail", origin,
                                [s2Basin |-> basin, stream |-> keystrokes_stream], "L186")}
    /\ nextId' = nextId + 1
    /\ writeQ' = q
    /\ UNCHANGED sent

\* main.ts:105-106.
startSetupFlowTest ==
    /\ Resumes("L105")
    /\ setupState' = "TESTING_CONNECTION"
    /\ TestStart("query", Tail(writeQ))
    /\ UNCHANGED <<envV, modeV, readV, basin, sessionNumber, token, keystrokes_stream,
                   pty_stream, since, speedup, currentInput, staleChars, inputLog, tails, messages>>

(***************************************************************************)
(* terminal.onData and terminal.onResize, main.ts:115-130.                 *)
(***************************************************************************)
UserEvent ==
    /\ started
    /\ userEvents < budget.events
    /\ userEvents' = userEvents + 1

\* s2.records.append as both senders call it (main.ts:214-216, 234-236): on
\* the input stream of the basin.
AppendRequest(origin, record, cont) ==
    [id |-> nextId, kind |-> "append", origin |-> origin, arg |-> record, cont |-> cont,
     stream |-> keystrokes_stream, s2Basin |-> basin]

\* sendKeystroke up to its await of append, main.ts:212-226.
sendKeystroke(data) ==
    /\ net' = net \cup {AppendRequest("none", KeystrokeRecord(data), "none")}
    /\ sent' = Append(sent, AppendRequest("none", KeystrokeRecord(data), "none"))
    /\ nextId' = nextId + 1

\* sendWindowResize up to its await of append, main.ts:232-250.  cont is
\* where the caller goes on once the append has settled.
sendWindowResize(cols, rows, origin, cont) ==
    /\ net' = net \cup {AppendRequest(origin, WindowRecord(cols, rows), cont)}
    /\ sent' = Append(sent, AppendRequest(origin, WindowRecord(cols, rows), cont))
    /\ nextId' = nextId + 1

\* The events handed to the handlers: onData's data (main.ts:116) and
\* onResize's {cols, rows} (main.ts:124).
DataEvent(data) == [event |-> "data", data |-> data, cols |-> 0, rows |-> 0]
ResizeEvent(cols, rows) == [event |-> "resize", data |-> "", cols |-> cols, rows |-> rows]

\* A handler that leaves the keystroke unsent while the loop sleeps.
onDataStreamingStalled(data) ==
    /\ UserEvent
    /\ setupState = "STREAMING"
    /\ observed' = Append(observed, DataEvent(data))
    /\ IF reader.pc = "sleeping"
       THEN UNCHANGED <<net, nextId, sent>>
       ELSE sendKeystroke(data)
    /\ UNCHANGED <<url, budget, viewport, started, configV, modeV, readV, setupState,
                   currentInput, staleChars, writeQ, inputLog, tails, messages>>

\* main.ts:116-118.
onDataStreaming(data) ==
    /\ UserEvent
    /\ setupState = "STREAMING"
    /\ observed' = Append(observed, DataEvent(data))
    /\ sendKeystroke(data)
    /\ UNCHANGED <<url, budget, viewport, started, configV, modeV, readV, setupState,
                   currentInput, staleChars, writeQ, inputLog, tails, messages>>

\* The handler without its test of the setup state.
onResizeUnguarded(size) ==
    /\ UserEvent
    /\ size # viewport
    /\ viewport' = size
    /\ observed' = Append(observed, ResizeEvent(size[1], size[2]))
    /\ sendWindowResize(size[1], size[2], "none", "none")
    /\ UNCHANGED <<url, budget, started, configV, modeV, readV, setupState, currentInput,
                   staleChars,
                   writeQ, inputLog, tails, messages>>

\* main.ts:124-129.
onResize(size) ==
    /\ UserEvent
    /\ size # viewport
    /\ viewport' = size
    /\ IF setupState = "STREAMING"
       THEN /\ observed' = Append(observed, ResizeEvent(size[1], size[2]))
            /\ sendWindowResize(size[1], size[2], "none", "none")
       ELSE UNCHANGED <<net, nextId, sent, observed>>
    /\ UNCHANGED <<url, budget, started, configV, modeV, readV, setupState, currentInput,
                   staleChars,
                   writeQ, inputLog, tails, messages>>

\* handleSetupInput, Enter: main.ts:133-134.
handleSetupInputEnter ==
    /\ UserEvent
    /\ setupState # "STREAMING"
    /\ writeQ' = Append(writeQ, Await("L135", 1, "interactive"))
    /\ UNCHANGED <<url, budget, viewport, started, observed, configV, modeV, readV, setupState,
                   currentInput, staleChars, net, nextId, sent, inputLog, tails, messages>>

\* handleSetupInput, Backspace: main.ts:137-141.
handleSetupInputBackspace ==
    /\ UserEvent
    /\ setupState # "STREAMING"
    /\ currentInput' = IF Len(currentInput) > 0
                       THEN SubSeq(currentInput, 1, Len(currentInput) - 1)
                       ELSE currentInput
    /\ staleChars' = IF staleChars > Len(currentInput') THEN Len(currentInput')
                      ELSE staleChars
    /\ UNCHANGED <<url, budget, viewport, started, observed, configV, modeV, readV, setupState,
                   writeQ,
                   net, nextId, sent, inputLog, tails, messages>>

\* handleSetupInput, a printable character: main.ts:142-144.
handleSetupInputPrintable(data) ==
    /\ UserEvent
    /\ setupState # "STREAMING"
    /\ IsPrintable(data)
    /\ currentInput' = Append(currentInput, data)
    /\ UNCHANGED staleChars
    /\ UNCHANGED <<url, budget, viewport, started, observed, configV, modeV, readV, setupState,
                   writeQ,
                   net, nextId, sent, inputLog, tails, messages>>

\* handleSetupInput, any other data: no branch of main.ts:133-145 is taken.
handleSetupInputOther(data) ==
    /\ UserEvent
    /\ setupState # "STREAMING"
    /\ data \notin {CR, DEL}
    /\ ~IsPrintable(data)
    /\ UNCHANGED <<url, budget, viewport, started, observed, configV, modeV, readV, setupState,
                   currentInput, staleChars, writeQ, net, nextId, sent, inputLog, tails, messages>>

onData(data) ==
    \/ onDataStreaming(data)
    \/ data = CR /\ handleSetupInputEnter
    \/ data = DEL /\ handleSetupInputBackspace
    \/ handleSetupInputPrintable(data)
    \/ handleSetupInputOther(data)

(***************************************************************************)
(* processSetupInput, main.ts:135-136 and 148-173: the continuation of     *)
(* Enter once its line feed is written.  L136 is the return to             *)
(* handleSetupInput, which clears currentInput.                            *)
(***************************************************************************)
processSetupInputBasin ==
    /\ Resumes("L135")
    /\ setupState = "COLLECTING_BASIN"
    /\ basin' = Str(trim(currentInput))
    /\ setupState' = "COLLECTING_SESSION"
    /\ PromptIssued
    /\ writeQ' = Append(Tail(writeQ), Await("L136", 2, "interactive"))
    /\ UNCHANGED <<envV, modeV, readV, sessionNumber, token, s2, keystrokes_stream,
                   pty_stream, since, speedup, currentInput, net, nextId, sent, inputLog, tails,
                   messages>>

processSetupInputSession ==
    /\ Resumes("L135")
    /\ setupState = "COLLECTING_SESSION"
    /\ sessionNumber' = Str(trim(currentInput))
    /\ keystrokes_stream' = Str(InputStreamName(trim(currentInput)))
    /\ pty_stream' = Str(OutputStreamName(trim(currentInput)))
    /\ setupState' = "COLLECTING_TOKEN"
    /\ PromptIssued
    /\ writeQ' = Append(Tail(writeQ), Await("L136", 2, "interactive"))
    /\ UNCHANGED <<envV, modeV, readV, basin, token, s2, since, speedup, currentInput,
                   net, nextId, sent, inputLog, tails, messages>>

processSetupInputToken ==
    /\ Resumes("L135")
    /\ setupState = "COLLECTING_TOKEN"
    /\ token' = Str(trim(currentInput))
    /\ setupState' = "TESTING_CONNECTION"
    /\ writeQ' = Append(Tail(writeQ), Await("L170", 1, "interactive"))
    /\ UNCHANGED <<envV, modeV, readV, basin, sessionNumber, s2, keystrokes_stream,
                   pty_stream, since, speedup, currentInput, staleChars, net, nextId, sent,
                   inputLog, tails,
                   messages>>

\* No case of the switch matches: GREETING, TESTING_CONNECTION, STREAMING.
processSetupInputNoCase ==
    /\ Resumes("L135")
    /\ setupState \notin {"COLLECTING_BASIN", "COLLECTING_SESSION", "COLLECTING_TOKEN"}
    /\ currentInput' = <<>>
    /\ staleChars' = 0
    /\ writeQ' = Tail(writeQ)
    /\ UNCHANGED <<envV, configV, modeV, readV, setupState, net, nextId, sent, inputLog, tails,
                   messages>>

\* main.ts:136, after the prompt of the next step is written.
handleSetupInputReturn ==
    /\ Resumes("L136")
    /\ currentInput' = <<>>
    /\ staleChars' = 0
    /\ writeQ' = Tail(writeQ)
    /\ UNCHANGED <<envV, configV, modeV, readV, setupState, net, nextId, sent, inputLog, tails,
                   messages>>

\* main.ts:170.
processSetupInputTest ==
    /\ Resumes("L170")
    /\ TestStart("interactive", Tail(writeQ))
    /\ UNCHANGED <<envV, modeV, readV, basin, sessionNumber, token, keystrokes_stream,
                   pty_stream, since, speedup, setupState, currentInput, staleChars, inputLog,
                   tails,
                   messages>>

(***************************************************************************)
(* testS2Connection after checkTail, main.ts:186-209.                      *)
(***************************************************************************)
\* The return of testS2Connection to its caller: handleSetupInput goes on
\* to main.ts:136, startSetupFlow (main.ts:106) has nothing left to do.
ReturnToCaller(origin) ==
    /\ currentInput' = IF origin = "interactive" THEN <<>> ELSE currentInput
    /\ staleChars' = IF origin = "interactive" THEN 0 ELSE staleChars

\* checkTail resolves: main.ts:186-193 write the success banner.
checkTailResolves(r) ==
    /\ r \in net
    /\ r.kind = "checkTail"
    /\ net' = net \ {r}
    /\ tails' = Append(tails, [outcome |-> "resolved", request |-> r.arg])
    /\ messages' = Append(messages, "Connection successful!")
    /\ writeQ' = Append(writeQ, Await("L195", 5, r.origin))
    /\ UNCHANGED <<envV, configV, modeV, readV, setupState, currentInput, staleChars, nextId, sent,
                   inputLog>>

\* checkTail rejects: the catch of main.ts:202-204.
checkTailRejects(r) ==
    /\ r \in net
    /\ r.kind = "checkTail"
    /\ net' = net \ {r}
    /\ tails' = Append(tails, [outcome |-> "rejected", request |-> r.arg])
    /\ messages' = Append(messages, "Connection failed")
    /\ writeQ' = Append(writeQ, Await("L206", 2, r.origin))
    /\ UNCHANGED <<envV, configV, modeV, readV, setupState, currentInput, staleChars, nextId, sent,
                   inputLog>>

\* main.ts:195-199: STREAMING, then the initial window size is sent.
testS2ConnectionStreaming ==
    /\ Resumes("L195")
    /\ setupState' = "STREAMING"
    /\ sendWindowResize(viewport[1], viewport[2], Head(writeQ).origin, "L201")
    /\ writeQ' = Tail(writeQ)
    /\ UNCHANGED <<envV, configV, modeV, readV, currentInput, staleChars, inputLog, tails,
                   messages>>

\* A catch that restarts the setup from the basin prompt.
testS2ConnectionRetryBasin ==
    /\ Resumes("L206")
    /\ setupState' = "COLLECTING_BASIN"
    /\ PromptIssued
    /\ writeQ' = Append(Tail(writeQ), Await("L210", 2, Head(writeQ).origin))
    /\ UNCHANGED <<envV, configV, modeV, readV, currentInput, net, nextId, sent, inputLog,
                   tails, messages>>

\* main.ts:206-208: back to the token prompt.
testS2ConnectionRetry ==
    /\ Resumes("L206")
    /\ setupState' = "COLLECTING_TOKEN"
    /\ PromptIssued
    /\ writeQ' = Append(Tail(writeQ), Await("L210", 2, Head(writeQ).origin))
    /\ UNCHANGED <<envV, configV, modeV, readV, currentInput, net, nextId, sent, inputLog, tails,
                   messages>>

\* main.ts:210: testS2Connection returns after a failed test.
testS2ConnectionReturn ==
    /\ Resumes("L210")
    /\ ReturnToCaller(Head(writeQ).origin)
    /\ writeQ' = Tail(writeQ)
    /\ UNCHANGED <<envV, configV, modeV, readV, setupState, net, nextId, sent, inputLog, tails,
                   messages>>

(***************************************************************************)
(* startS2Streaming up to its await of read, main.ts:257-282.              *)
(***************************************************************************)
ReadParams ==
    [stream |-> pty_stream, s2Basin |-> basin,
     start |-> IF Truthy(since) THEN [timestamp |-> since] ELSE [tailOffset |-> 0]]

LiveAtStart == IF Truthy(since) THEN isLiveMode ELSE TRUE

\* n is the set of requests still in flight, id the next request's number.
startS2Streaming(origin, n, id) ==
    /\ isLiveMode' = LiveAtStart
    /\ net' = n \cup {[id |-> id, kind |-> "read", origin |-> origin,
                       arg |-> ReadParams, cont |-> "L284"]}
    /\ nextId' = id + 1
    /\ reads' = Append(reads, [params |-> ReadParams, live |-> LiveAtStart])
    /\ UNCHANGED sent
    /\ reader' = [NoReader EXCEPT !.pc = "opening", !.origin = origin]

\* What follows the settled append: the caller of sendWindowResize at
\* main.ts:199 goes on to main.ts:201; an event handler has nothing left.
AppendSettled(r) ==
    IF r.cont = "L201"
    THEN /\ startS2Streaming(r.origin, net \ {r}, nextId)
         /\ UNCHANGED lastRecordTimestamp
    ELSE /\ net' = net \ {r}
         /\ UNCHANGED <<modeV, nextId, sent, reads, reader>>

\* append resolves: the record is in the input log.
appendResolves(r) ==
    /\ r \in net
    /\ r.kind = "append"
    /\ inputLog' = Append(inputLog, [id |-> r.id, record |-> r.arg])
    /\ AppendSettled(r)
    /\ UNCHANGED tails
    /\ UNCHANGED <<envV, configV, setupState, currentInput, staleChars, writeQ, delivered,
                   rendered, lastProcessed, messages>>

\* sendWindowResize without a catch of its own: the failed append of
\* main.ts:199 reaches the catch of main.ts:202.
appendRejectsThrows(r) ==
    /\ r \in net
    /\ r.kind = "append"
    /\ IF r.cont = "L201"
       THEN /\ net' = net \ {r}
            /\ messages' = Append(messages, "Connection failed")
            /\ writeQ' = Append(writeQ, Await("L206", 2, r.origin))
            /\ UNCHANGED <<modeV, nextId, sent, reads, reader>>
       ELSE /\ AppendSettled(r)
            /\ UNCHANGED <<writeQ, messages>>
    /\ UNCHANGED <<envV, configV, setupState, currentInput, staleChars, inputLog, tails, delivered,
                   rendered, lastProcessed>>

\* A catch that handles a failed append as a failed connection test.
appendRejectsReset(r) ==
    /\ r \in net
    /\ r.kind = "append"
    /\ AppendSettled(r)
    /\ setupState' = "COLLECTING_TOKEN"
    /\ UNCHANGED <<envV, configV, currentInput, staleChars, writeQ, inputLog, tails, delivered,
                   rendered, lastProcessed, messages>>

\* append rejects: the catch of main.ts:227-229 and 252-254 logs and drops.
appendRejects(r) ==
    /\ r \in net
    /\ r.kind = "append"
    /\ AppendSettled(r)
    /\ UNCHANGED <<envV, configV, setupState, currentInput, staleChars, writeQ, inputLog, tails,
                   delivered, rendered, lastProcessed, messages>>

(***************************************************************************)
(* startS2Streaming after read, main.ts:284-302.                           *)
(***************************************************************************)
readResolves(r) ==
    /\ r \in net
    /\ r.kind = "read"
    /\ net' = net \ {r}
    /\ reader' = [reader EXCEPT !.pc = "banner"]
    /\ writeQ' = Append(writeQ, Await("L293", 3, r.origin))
    /\ UNCHANGED <<envV, configV, modeV, setupState, currentInput, staleChars, nextId, sent,
                   inputLog, tails,
                   reads, delivered, rendered, lastProcessed, messages>>

\* The catch of main.ts:298-300.
StreamingError ==
    /\ messages' = Append(messages, "Streaming error")
    /\ writeQ' = Append(writeQ, Await("L302", 1, reader.origin))
    /\ reader' = [reader EXCEPT !.pc = "failed", !.sentBefore = Len(sent)]

readRejects(r) ==
    /\ r \in net
    /\ r.kind = "read"
    /\ net' = net \ {r}
    /\ StreamingError
    /\ UNCHANGED <<envV, configV, modeV, setupState, currentInput, staleChars, nextId, sent,
                   inputLog, tails,
                   reads, delivered, rendered, lastProcessed>>

\* main.ts:293-294: the loop waits for the first event.
startS2StreamingLoop ==
    /\ Resumes("L293")
    /\ reader' = [reader EXCEPT !.pc = "waiting"]
    /\ writeQ' = Tail(writeQ)
    /\ UNCHANGED <<envV, configV, modeV, setupState, currentInput, staleChars, net, nextId, sent,
                   inputLog, tails, reads, delivered, rendered, lastProcessed, messages>>

\* main.ts:302: startS2Streaming returns after the error line is written,
\* and testS2Connection returns with it.
startS2StreamingReturn ==
    /\ Resumes("L302")
    /\ reader' = [reader EXCEPT !.pc = "returned"]
    /\ ReturnToCaller(Head(writeQ).origin)
    /\ writeQ' = Tail(writeQ)
    /\ UNCHANGED <<envV, configV, modeV, setupState, net, nextId, sent, inputLog, tails, reads,
                   delivered, rendered, lastProcessed, messages>>

(***************************************************************************)
(* The events of the read subscription, main.ts:293-313.  The SSE stream   *)
(* hands over a batch of sequenced records, another event, fails or ends.  *)
(***************************************************************************)
\* The body of the record with this seqNum: one byte of its own, and no
\* body for every second record.
BodyOf(seqNum) == IF seqNum % 2 = 0 THEN Undefined ELSE Str(<<seqNum>>)

\* The batches the subscription can deliver next: consecutive seqNums, any
\* timestamps.
Batches ==
    { [i \in 1..k |->
          [seqNum |-> Len(delivered) + i,
           timestamp |-> tss[i],
           body |-> BodyOf(Len(delivered) + i)]] :
        k \in 1..MaxBatch, tss \in [1..MaxBatch -> Times] }

\* A loop that takes up only the first record of the batch.
applyS2RecordFirstOnly(batch) ==
    /\ reader.pc = "waiting"
    /\ Len(delivered) + Len(batch) <= budget.records
    /\ delivered' = delivered \o [i \in 1..Len(batch) |-> batch[i].body]
    /\ reader' = [reader EXCEPT !.pc = "record", !.batch = <<Head(batch)>>]
    /\ UNCHANGED <<envV, configV, modeV, setupState, currentInput, staleChars, writeQ, net,
                   nextId, sent,
                   inputLog, tails, reads, rendered, lastProcessed, messages>>

\* applyS2Record on a batch event, main.ts:305-309.
applyS2RecordBatch(batch) ==
    /\ reader.pc = "waiting"
    /\ Len(delivered) + Len(batch) <= budget.records
    /\ delivered' = delivered \o [i \in 1..Len(batch) |-> batch[i].body]
    /\ reader' = [reader EXCEPT !.pc = "record", !.batch = batch]
    /\ UNCHANGED <<envV, configV, modeV, setupState, currentInput, staleChars, writeQ, net,
                   nextId, sent,
                   inputLog, tails, reads, rendered, lastProcessed, messages>>

\* applyS2Record on any other event, main.ts:310-312: it is logged.
applyS2RecordOther ==
    /\ reader.pc = "waiting"
    /\ UNCHANGED vars

\* A catch that handles the streaming error as a failed connection test.
readStreamFailsReset ==
    /\ reader.pc = "waiting"
    /\ StreamingError
    /\ setupState' = "COLLECTING_TOKEN"
    /\ UNCHANGED <<envV, configV, modeV, currentInput, staleChars, net, nextId, sent,
                   inputLog, tails, reads, delivered, rendered, lastProcessed>>

\* The iterator throws: the catch of main.ts:298-300.
readStreamFails ==
    /\ reader.pc = "waiting"
    /\ StreamingError
    /\ UNCHANGED <<envV, configV, modeV, setupState, currentInput, staleChars, net, nextId, sent,
                   inputLog, tails, reads, delivered, rendered, lastProcessed>>

\* The iterator is done: the loop of main.ts:294-296 ends and
\* startS2Streaming returns, and testS2Connection with it.
readStreamEnds ==
    /\ reader.pc = "waiting"
    /\ reader' = [reader EXCEPT !.pc = "returned"]
    /\ ReturnToCaller(reader.origin)
    /\ UNCHANGED <<envV, configV, modeV, setupState, writeQ, net, nextId, sent, inputLog, tails,
                   reads, delivered, rendered, lastProcessed, messages>>

(***************************************************************************)
(* processRecord, main.ts:315-349.                                         *)
(***************************************************************************)
\* The window of main.ts:322 taken without its edge.
IsFreshStrict(now, timestamp) ==
    LessEq(Minus(now, timestamp), Num(FreshnessWindowMs - 1))

\* main.ts:319-322: within 5 seconds of the current time or in the future.
IsFresh(now, timestamp) ==
    LessEq(Minus(now, timestamp), Num(FreshnessWindowMs))

\* main.ts:317-323: the record makes the session enter live mode.
CaughtUp(now, timestamp) ==
    Truthy(timestamp) /\ IsFresh(now, timestamp) /\ ~isLiveMode /\ Truthy(since)

\* The flag recomputed from each record's freshness.
LiveModeRecomputed(now, timestamp) == isLiveMode /\ IsFresh(now, timestamp)

\* main.ts:322-328 when the transition is not taken: the flag is left alone.
LiveModeKept(now, timestamp) == isLiveMode

\* The condition of main.ts:332 without its test of isLiveMode.
IsPacedInLive(live, timestamp) ==
    Truthy(since) /\ Truthy(timestamp) /\ Truthy(lastRecordTimestamp)

\* main.ts:332: replay pacing applies to this record.
IsPaced(live, timestamp) ==
    Truthy(since) /\ ~live /\ Truthy(timestamp) /\ Truthy(lastRecordTimestamp)

\* The time difference of main.ts:333 without the division of main.ts:334.
AdjustedDelayUnscaled(timestamp) == Minus(timestamp, lastRecordTimestamp)

\* The division of main.ts:334 with its operands exchanged.
AdjustedDelayInverted(timestamp) ==
    Divide(speedup, Minus(timestamp, lastRecordTimestamp))

\* main.ts:333-334.
AdjustedDelay(timestamp) ==
    Divide(Minus(timestamp, lastRecordTimestamp), speedup)

\* main.ts:343.
BodyOrEmpty(body) == IF Truthy(body) THEN body.s ELSE <<>>

\* The rendering with lastRecordTimestamp kept up only during the replay.
RenderReplayOnly(rd, live) ==
    LET record == Head(rd.batch)
        rest == Tail(rd.batch)
    IN  /\ lastRecordTimestamp' = IF Truthy(since) /\ ~live
                                  THEN Num(record.timestamp)
                                  ELSE lastRecordTimestamp
        /\ rendered' = Append(rendered, BodyOrEmpty(record.body))
        /\ lastProcessed' = [lastProcessed EXCEPT !.seqNum = record.seqNum,
                                                  !.timestamp = record.timestamp,
                                                  !.now = rd.now,
                                                  !.wasReplaying = rd.wasReplaying,
                                                  !.live = live,
                                                  !.last = lastRecordTimestamp,
                                                  !.slept = rd.delay]
        /\ reader' = [rd EXCEPT !.pc = IF rest = <<>> THEN "waiting" ELSE "record",
                                !.batch = rest, !.now = 0, !.wasReplaying = FALSE,
                                !.delay = Undefined, !.sentBefore = 0]

\* main.ts:341-348: the record is rendered; rd is the reader at this
\* point, live the mode the record was paced under.
Render(rd, live) ==
    LET record == Head(rd.batch)
        rest == Tail(rd.batch)
        first == IF ~Truthy(since) \/ live THEN 0
                 ELSE IF lastProcessed.seqNum = 0 THEN record.timestamp
                 ELSE IF record.timestamp < lastProcessed.timestamp THEN 0
                 ELSE lastProcessed.first
        total == IF first = 0 \/ lastProcessed.seqNum = 0 THEN Num(0)
                 ELSE Plus(lastProcessed.total,
                           IF rd.delay = Undefined THEN Num(0) ELSE rd.delay)
    IN  /\ lastRecordTimestamp' = Num(record.timestamp)
        /\ rendered' = Append(rendered, BodyOrEmpty(record.body))
        /\ lastProcessed' = [seqNum |-> record.seqNum,
                             timestamp |-> record.timestamp,
                             now |-> rd.now,
                             wasReplaying |-> rd.wasReplaying,
                             live |-> live,
                             last |-> lastRecordTimestamp,
                             slept |-> rd.delay,
                             first |-> first,
                             total |-> total]
        /\ reader' = [rd EXCEPT !.pc = IF rest = <<>> THEN "waiting" ELSE "record",
                                !.batch = rest, !.now = 0, !.wasReplaying = FALSE,
                                !.delay = Undefined, !.sentBefore = 0]

\* main.ts:331-339: the pacing sleep, if any, then the rendering.
Pace(rd, live) ==
    LET timestamp == Num(Head(rd.batch).timestamp)
    IN  IF IsPaced(live, timestamp) /\ GreaterThanZero(AdjustedDelay(timestamp))
        THEN /\ reader' = [rd EXCEPT !.pc = "sleeping", !.delay = AdjustedDelay(timestamp),
                                     !.sentBefore = Len(sent)]
             /\ UNCHANGED <<lastRecordTimestamp, rendered, lastProcessed>>
        ELSE Render(rd, live)

\* main.ts:315-325 and on: the next record of the batch is taken up.
processRecord(now) ==
    /\ reader.pc = "record"
    /\ LET timestamp == Num(Head(reader.batch).timestamp)
           rd == [reader EXCEPT !.now = now,
                                !.wasReplaying = Truthy(since) /\ ~isLiveMode]
       IN  IF CaughtUp(Num(now), timestamp)
           THEN /\ messages' = Append(messages, "[Live mode activated]")
                /\ writeQ' = Append(writeQ, Await("L326", 1, reader.origin))
                /\ reader' = [rd EXCEPT !.pc = "activating"]
                /\ UNCHANGED <<modeV, rendered, lastProcessed>>
           ELSE /\ isLiveMode' = LiveModeKept(Num(now), timestamp)
                /\ Pace(rd, isLiveMode')
                /\ UNCHANGED <<writeQ, messages>>
    /\ UNCHANGED <<envV, configV, setupState, currentInput, staleChars, net, nextId, sent,
                   inputLog, tails,
                   reads, delivered>>

\* A transition that also sends the window size.
processRecordLiveResize ==
    /\ Resumes("L326")
    /\ isLiveMode' = TRUE
    /\ Pace(reader, TRUE)
    /\ writeQ' = Tail(writeQ)
    /\ sendWindowResize(viewport[1], viewport[2], "none", "none")
    /\ UNCHANGED <<envV, configV, setupState, currentInput, staleChars, inputLog, tails, reads,
                   delivered, messages>>

\* main.ts:326 and on: live mode is entered, the record goes on unpaced.
processRecordLive ==
    /\ Resumes("L326")
    /\ isLiveMode' = TRUE
    /\ Pace(reader, TRUE)
    /\ writeQ' = Tail(writeQ)
    /\ UNCHANGED <<envV, configV, setupState, currentInput, staleChars, net, nextId, sent,
                   inputLog, tails,
                   reads, delivered, messages>>

\* The timer of sleep (main.ts:351-353) fires: main.ts:341-348.
sleepResolves ==
    /\ reader.pc = "sleeping"
    /\ Render(reader, isLiveMode)
    /\ UNCHANGED <<envV, configV, setupState, currentInput, staleChars, isLiveMode, writeQ, net,
                   nextId, sent, inputLog, tails, reads, delivered, messages>>

(***************************************************************************)
(* The specification.                                                      *)
(***************************************************************************)
Next ==
    \/ initialize
    \/ NextWrite
    \/ startSetupFlowQuery
    \/ startSetupFlowInteractive
    \/ startSetupFlowTest
    \/ \E data \in DataValues : onData(data)
    \/ \E size \in Viewports : onResize(size)
    \/ processSetupInputBasin
    \/ processSetupInputSession
    \/ processSetupInputToken
    \/ processSetupInputNoCase
    \/ handleSetupInputReturn
    \/ processSetupInputTest
    \/ \E r \in net : checkTailResolves(r)
    \/ \E r \in net : checkTailRejects(r)
    \/ testS2ConnectionStreaming
    \/ testS2ConnectionRetry
    \/ testS2ConnectionReturn
    \/ \E r \in net : appendResolves(r)
    \/ \E r \in net : appendRejects(r)
    \/ \E r \in net : readResolves(r)
    \/ \E r \in net : readRejects(r)
    \/ startS2StreamingLoop
    \/ startS2StreamingReturn
    \/ reader.pc = "waiting" /\ \E batch \in Batches : applyS2RecordBatch(batch)
    \/ applyS2RecordOther
    \/ readStreamFails
    \/ readStreamEnds
    \/ \E now \in Nows : processRecord(now)
    \/ processRecordLive
    \/ sleepResolves

Spec == Init /\ [][Next]_vars

(***************************************************************************)
(* The properties of the specification.  lastProcessed is what             *)
(* processRecord did with the record it finished last: the mode it found   *)
(* (wasReplaying), the mode it paced the record under (live), the          *)
(* lastRecordTimestamp it found (last) and the sleep it took (slept).      *)
(***************************************************************************)

\* C1: the REPLAYING -> LIVE transition is one-way.  Once isLiveMode is
\* true no step makes it false again: no record, however old its
\* timestamp, and no user event.
C1_LiveIsOneWay == [][isLiveMode => isLiveMode']_vars

\* A session started from `since` that went live, saw a user event, and in
\* live mode processed a record older than the freshness window.
C1_StaleRecordWhileLive ==
    /\ Truthy(since)
    /\ isLiveMode
    /\ userEvents > 0
    /\ lastProcessed.seqNum > 1
    /\ ~lastProcessed.wasReplaying
    /\ lastProcessed.now - lastProcessed.timestamp > FreshnessWindowMs

\* C2: a record processed in REPLAYING is rendered after a sleep of
\* max((timestamp - lastRecordTimestamp) / speedup, 0) milliseconds when
\* lastRecordTimestamp is set (no sleep stands for a sleep of 0), and
\* without any sleep when it is the first record; while the sleep lasts the
\* record is not rendered.
C2_ReplayPacing ==
    LET p == lastProcessed
        diff == p.timestamp - p.last.n
    IN  /\ (p.seqNum > 0 /\ Truthy(since) /\ ~p.live) =>
              IF p.last = Undefined
              THEN p.slept = Undefined
              ELSE IF diff > 0
                   THEN /\ IsNum(p.slept)
                        /\ p.slept.n * speedup.n = diff * speedup.d * p.slept.d
                   ELSE p.slept = Undefined
        /\ reader.pc = "sleeping" =>
              /\ Len(rendered) = Head(reader.batch).seqNum - 1
              /\ GreaterThanZero(reader.delay)

\* A record stamped 5000 ms after its predecessor, replayed at speedup 5,
\* was rendered after a sleep of 1000 ms.
C2_SleptOneSecond ==
    /\ speedup = Num(5)
    /\ ~lastProcessed.live
    /\ lastProcessed.last = Num(2500)
    /\ lastProcessed.timestamp = 7500
    /\ lastProcessed.slept = Num(1000)
    /\ Len(rendered) = lastProcessed.seqNum

\* C3: a record processed by a session in REPLAYING makes the session LIVE
\* at that record exactly when now - timestamp <= 5000 ms, the edge and
\* timestamps in the future included; an older record leaves it REPLAYING.
C3_CatchUpDetection ==
    (lastProcessed.seqNum > 0 /\ lastProcessed.wasReplaying) =>
        /\ lastProcessed.live =
              (lastProcessed.now - lastProcessed.timestamp <= FreshnessWindowMs)
        /\ isLiveMode = lastProcessed.live

\* A record exactly 5000 ms old took a replaying session to live mode.
C3_LiveOnTheEdge ==
    /\ lastProcessed.wasReplaying
    /\ lastProcessed.now - lastProcessed.timestamp = FreshnessWindowMs
    /\ lastProcessed.live
    /\ isLiveMode

\* C4: no pacing sleep is taken for a record processed in LIVE mode, the
\* record that triggered the transition included, and no sleep is pending
\* while the session is LIVE.
C4_NoPacingWhenLive ==
    /\ (lastProcessed.seqNum > 0 /\ lastProcessed.live) => lastProcessed.slept = Undefined
    /\ reader.pc = "sleeping" => ~isLiveMode

\* The record that triggered the transition came later than its
\* predecessor and was rendered without a sleep.
C4_TransitionRecordUnpaced ==
    /\ lastProcessed.wasReplaying
    /\ lastProcessed.live
    /\ lastProcessed.last # Undefined
    /\ lastProcessed.timestamp > lastProcessed.last.n
    /\ Len(rendered) = lastProcessed.seqNum

\* C5: the page's `since` parameter chooses the start.  With a timestamp
\* given, the read starts at that timestamp and the session starts in
\* REPLAYING; without one, the read starts at the tail and the session
\* starts LIVE, is never REPLAYING and never takes a pacing sleep.
C5_StartPosition ==
    LET given == url.since.k = "str" /\ IsNum(parseInt(url.since.s))
    IN  /\ \A i \in 1..Len(reads) :
              IF given
              THEN /\ reads[i].params.start = [timestamp |-> parseInt(url.since.s)]
                   /\ ~reads[i].live
              ELSE /\ reads[i].params.start = [tailOffset |-> 0]
                   /\ reads[i].live
        /\ ~given =>
              /\ reader.pc # "sleeping"
              /\ lastProcessed.seqNum > 0 =>
                    /\ lastProcessed.live
                    /\ ~lastProcessed.wasReplaying
                    /\ lastProcessed.slept = Undefined

\* C6, as the specification states it: in the step that makes the session
\* LIVE for the first time, from the tail or from REPLAYING, a window
\* record is on its way to the input log: its append is issued or settles
\* in that step.
C6_WindowOnEnteringLive ==
    [][(~isLiveMode /\ isLiveMode') =>
          \E r \in net \cup net' :
              /\ r.kind = "append"
              /\ r.arg.headers[1] = <<"type", "window">>
              /\ r \notin net \cap net']_vars

\* C6, amended: the window record with the viewport's size is sent once,
\* as the first append, when STREAMING is entered; the read subscription
\* opens only after that append has settled, whatever its outcome; every
\* later change of the viewport is sent, so the last window record sent is
\* the viewport's size; and the step from REPLAYING to LIVE sends nothing.
C6_WindowOnEnteringStreaming ==
    /\ [](/\ (setupState = "STREAMING") = (sent # <<>>)
          /\ sent # <<>> =>
                LET windows == {i \in 1..Len(sent) :
                                   sent[i].arg.headers[1] = <<"type", "window">>}
                    latest == CHOOSE i \in windows : \A j \in windows : j <= i
                IN  /\ 1 \in windows
                    /\ sent[latest].arg.headers =
                          << <<"type", "window">>,
                             <<"rows", toString(viewport[2])>>,
                             <<"cols", toString(viewport[1])>> >>
                    /\ (reads # <<>>) = (sent[1] \notin net)
                    /\ Len(reads) <= 1)
    /\ [][(~isLiveMode /\ isLiveMode' /\ reads # <<>>) => (sent' = sent /\ net' = net)]_vars

\* A session replayed from `since` is LIVE after its transition, with the
\* window record of its start as the only append it issued.
C6_LiveAfterReplayOneWindow ==
    /\ Truthy(since)
    /\ isLiveMode
    /\ lastProcessed.wasReplaying
    /\ Len(sent) = 1
    /\ sent[1].arg = WindowRecord(viewport[1], viewport[2])

\* C7: a failure of the output log's read is resumed: once the failure is
\* handled, a new read subscription has been opened, at the tail when the
\* session is LIVE and at the last record's timestamp when REPLAYING.
C7_ReadResumed ==
    (reader.pc = "returned" /\ \E i \in 1..Len(messages) : messages[i] = "Streaming error") =>
        /\ Len(reads) >= 2
        /\ reads[Len(reads)].params.start =
              IF isLiveMode THEN [tailOffset |-> 0]
              ELSE [timestamp |-> lastRecordTimestamp]

\* C8: a rejected append (the request leaves the network and the input log
\* stays as it is) is dropped: no append is issued for it, nothing is
\* written to the terminal, the setup state and lastRecordTimestamp stay,
\* and the mode stays unless the append is the window record of the start
\* (the first append), after which the read subscription opens as it does
\* on success.  Every user event in STREAMING issues an append of its own,
\* whatever happened to earlier ones.
C8_AppendFailureDropped ==
    /\ [][\A r \in net :
             (r.kind = "append" /\ r \notin net' /\ inputLog' = inputLog) =>
                 /\ setupState' = setupState
                 /\ lastRecordTimestamp' = lastRecordTimestamp
                 /\ sent' = sent
                 /\ messages' = messages
                 /\ writeQ' = writeQ
                 /\ IF r = sent[1]
                    THEN reads = <<>> /\ Len(reads') = 1
                    ELSE /\ isLiveMode' = isLiveMode
                         /\ reads' = reads
                         /\ net' = net \ {r}]_vars
    /\ [][(setupState = "STREAMING" /\ userEvents' = userEvents + 1) =>
             /\ Len(sent') = Len(sent) + 1
             /\ sent'[Len(sent')] \in net' \ net]_vars

\* An append was dropped, and the append of a later event is in the input
\* log.
C8_AppendAfterDroppedAppend ==
    \E i, j \in 1..Len(sent) :
        /\ i < j
        /\ sent[i] \notin net
        /\ \A k \in 1..Len(inputLog) : inputLog[k].id # sent[i].id
        /\ sent[i].cont = "none"
        /\ \E k \in 1..Len(inputLog) : inputLog[k].id = sent[j].id

\* C9: a failed connection test is recoverable.  Each failure writes
\* "Connection failed"; STREAMING is entered only after a test that
\* succeeded; after a failure the state is back at the token prompt with
\* the basin and the session's streams as they were tested, until the next
\* token is submitted, and that starts a new test of the same streams.
C9_ConnectionFailureRecoverable ==
    LET failures == {i \in 1..Len(tails) : tails[i].outcome = "rejected"}
        lines == {i \in 1..Len(messages) : messages[i] = "Connection failed"}
        handling == \E i \in 1..Len(writeQ) : writeQ[i].pc = "L206"
        testing == \/ \E r \in net : r.kind = "checkTail"
                   \/ \E i \in 1..Len(writeQ) : writeQ[i].pc = "L170"
    IN  /\ Cardinality(lines) = Cardinality(failures)
        /\ setupState = "STREAMING" =>
              (tails # <<>> /\ failures = 1..(Len(tails) - 1))
        /\ \A i \in 1..Len(tails) :
              tails[i].request = [s2Basin |-> basin, stream |-> keystrokes_stream]
        /\ (tails # <<>> /\ Len(tails) \in failures) =>
              IF handling THEN setupState = "TESTING_CONNECTION"
              ELSE IF testing THEN setupState = "TESTING_CONNECTION"
              ELSE setupState = "COLLECTING_TOKEN"

\* Two connection tests failed, the third succeeded, and the session
\* streams.
C9_StreamingAfterTwoFailures ==
    /\ setupState = "STREAMING"
    /\ Len(tails) = 3
    /\ tails[1].outcome = "rejected"
    /\ tails[2].outcome = "rejected"
    /\ reads # <<>>

\* C10: the terminal shows the bodies of the delivered records, each once
\* and in the order of delivery, an absent body as the empty string; all
\* that is missing is the part of the current batch still to be processed.
C10_RenderingInOrder ==
    LET pending == IF reader.pc \in {"record", "activating", "sleeping"}
                   THEN Len(reader.batch) ELSE 0
    IN  /\ Len(rendered) = Len(delivered) - pending
        /\ \A i \in 1..Len(rendered) :
              rendered[i] = IF delivered[i] = Undefined THEN <<>> ELSE delivered[i].s

\* Three records, the second without a body, were rendered by a session
\* that replayed and then went live.
C10_ThreeRendered ==
    /\ Len(rendered) = 3
    /\ rendered[2] = <<>>
    /\ rendered[3] # <<>>
    /\ Truthy(since)
    /\ isLiveMode
    /\ reader.pc = "waiting"


\* C11: input forwarding does not wait for the record loop.  A keystroke or
\* resize observed in STREAMING while the loop is suspended, in a pacing
\* sleep or waiting for the next event, issues its append in the same step
\* and leaves the loop as it is.
C11_InputNotStalled ==
    [][(/\ setupState = "STREAMING"
        /\ reader.pc \in {"sleeping", "waiting"}
        /\ userEvents' = userEvents + 1) =>
           /\ Len(sent') = Len(sent) + 1
           /\ sent'[Len(sent')] \in net'
           /\ reader' = reader]_vars

\* The loop is in a pacing sleep, and the record of a keystroke observed
\* during that sleep is in the input log.
C11_AppendedDuringSleep ==
    /\ reader.pc = "sleeping"
    /\ Len(sent) > reader.sentBefore
    /\ \E k \in 1..Len(inputLog) :
          /\ inputLog[k].id = sent[Len(sent)].id
          /\ inputLog[k].record.headers = << <<"type", "keystroke">> >>


\* C12: the duration of a replay.  While the session is REPLAYING and the
\* timestamps t1..tn of the records it has processed have not decreased,
\* the pacing sleeps taken add up to (tn - t1) / speedup; and the record
\* that is within the freshness window ends the replay: the session is
\* LIVE from it on.
C12_ReplayDuration ==
    LET p == lastProcessed
    IN  /\ (p.seqNum > 0 /\ p.first # 0) =>
              /\ ~isLiveMode
              /\ IsNum(p.total)
              /\ p.total.n * speedup.n = (p.timestamp - p.first) * speedup.d * p.total.d
        /\ (p.seqNum > 0 /\ p.wasReplaying /\ p.now - p.timestamp <= FreshnessWindowMs) =>
              (isLiveMode /\ p.first = 0)

\* Three records replayed at speedup 5, the last stamped 5000 ms after the
\* first: 1000 ms were slept in all.
C12_ThreeRecordsOneSecond ==
    /\ speedup = Num(5)
    /\ lastProcessed.seqNum = 3
    /\ lastProcessed.first = 2500
    /\ lastProcessed.timestamp = 7500
    /\ lastProcessed.total = Num(1000)
    /\ ~isLiveMode


\* C13: session addressing.  On both setup paths the stream names are
\* sessions/{sessionId}/term_input and sessions/{sessionId}/term_output for
\* the session id in use; the connection test and every keystroke or
\* window append target that input stream, every read that output stream.
C13_SessionAddressing ==
    LET input(id) == Str(<< "sessions/" >> \o id \o << "/term_input" >>)
        output(id) == Str(<< "sessions/" >> \o id \o << "/term_output" >>)
    IN  /\ (sessionNumber = Undefined) = (keystrokes_stream = Undefined)
        /\ (sessionNumber = Undefined) = (pty_stream = Undefined)
        /\ sessionNumber # Undefined =>
              /\ keystrokes_stream = input(sessionNumber.s)
              /\ pty_stream = output(sessionNumber.s)
              /\ HasQueryParams => sessionNumber = url.session
        /\ \A i \in 1..Len(sent) :
              sent[i].stream = input(sessionNumber.s) /\ sent[i].s2Basin = basin
        /\ \A i \in 1..Len(tails) :
              tails[i].request.stream = input(sessionNumber.s)
        /\ \A i \in 1..Len(reads) :
              /\ reads[i].params.stream = output(sessionNumber.s)
              /\ reads[i].params.s2Basin = basin

\* Session 7 of the query parameters: a window record and a keystroke went
\* to sessions/7/term_input and the read is on sessions/7/term_output.
C13_SessionSeven ==
    /\ sessionNumber = Str(<<"7">>)
    /\ Len(sent) >= 2
    /\ sent[2].stream = Str(<<"sessions/", "7", "/term_input">>)
    /\ sent[2].arg.headers = << <<"type", "keystroke">> >>
    /\ reads # <<>>
    /\ reads[1].params.stream = Str(<<"sessions/", "7", "/term_output">>)


\* C14: the session can be cancelled, and cancelling it ends the read
\* subscription and unblocks a pending pacing sleep with no further record
\* rendered: whenever the loop is in a pacing sleep, some step of the
\* program ends that sleep without rendering the record it was taken for.
C14_Cancellation ==
    reader.pc = "sleeping" =>
        ENABLED (Next /\ reader'.pc # "sleeping" /\ rendered' = rendered)


\* C15: the shape of forwarded input.  The appends issued in STREAMING are
\* the window record of the start and then one per user event observed, in
\* the order observed: for data, a record with the one header
\* type=keystroke and the data as its body; for a resize to (cols, rows),
\* a record with the headers type=window, rows=rows, cols=cols and an
\* empty body.
C15_RecordShape ==
    /\ sent # <<>> => Len(sent) = Len(observed) + 1
    /\ sent = <<>> => observed = <<>>
    /\ \A i, j \in 1..Len(sent) : sent[i].id = sent[j].id => i = j
    /\ \A i \in 1..Len(observed) :
          LET e == observed[i]
              record == sent[i + 1].arg
          IN  IF e.event = "data"
              THEN record = [body |-> <<e.data>>,
                             headers |-> << <<"type", "keystroke">> >>]
              ELSE record = [body |-> <<>>,
                             headers |-> << <<"type", "window">>,
                                            <<"rows", toString(e.rows)>>,
                                            <<"cols", toString(e.cols)>> >>]

\* A resize to 100 columns and 40 rows and then a keystroke were observed
\* in STREAMING; the window record with rows=40 and cols=100 is in the
\* input log.
C15_ResizeThenKeystroke ==
    /\ Len(observed) = 2
    /\ observed[1] = ResizeEvent(100, 40)
    /\ observed[2].event = "data"
    /\ \E k \in 1..Len(inputLog) :
          /\ inputLog[k].id = sent[2].id
          /\ inputLog[k].record.body = <<>>
          /\ inputLog[k].record.headers =
                << <<"type", "window">>, <<"rows", <<"4", "0">> >>,
                   <<"cols", <<"1", "0", "0">> >> >>


\* C16: lastRecordTimestamp is the timestamp of the record processed last,
\* in REPLAYING and in LIVE, with or without since; before the first
\* record it is unset, and it does not move while the next record is being
\* processed.
C16_LastRecordTimestamp ==
    /\ lastProcessed.seqNum = 0 => lastRecordTimestamp = Undefined
    /\ lastProcessed.seqNum > 0 =>
          /\ IsNum(lastRecordTimestamp)
          /\ lastRecordTimestamp.n = lastProcessed.timestamp
          /\ lastRecordTimestamp.d = 1
    /\ lastProcessed.seqNum = Len(rendered)

\* A session without since, LIVE from its start, has processed a record:
\* lastRecordTimestamp is that record's timestamp.
C16_UpdatedWithoutSince ==
    /\ since = Undefined
    /\ lastProcessed.seqNum = 1
    /\ lastProcessed.live
    /\ lastRecordTimestamp = Num(7500)
    /\ lastProcessed.timestamp = 7500


\* C17: nothing reaches the logs before a successful connection test.
\* While the setup state is not STREAMING no append has been issued, the
\* input log has no record of this client, no read has been opened and the
\* only requests in flight are connection tests: the keystrokes and
\* resizes of the setup are not forwarded.  STREAMING is entered only
\* after a tail check that succeeded.
C17_NothingBeforeStreaming ==
    /\ setupState # "STREAMING" =>
          /\ sent = <<>>
          /\ observed = <<>>
          /\ inputLog = <<>>
          /\ reads = <<>>
          /\ reader.pc = "none"
          /\ \A r \in net : r.kind = "checkTail"
    /\ setupState = "STREAMING" =>
          /\ tails # <<>>
          /\ tails[Len(tails)].outcome = "resolved"
          /\ \A r \in net : r.kind # "checkTail"
    /\ \A k \in 1..Len(inputLog) : \E i \in 1..Len(sent) : sent[i].id = inputLog[k].id

\* A resize and a typed character were observed during the setup from the
\* query parameters; the session streams and the only append issued is
\* the window record of the start.
C17_SetupEventsNotForwarded ==
    /\ setupState = "STREAMING"
    /\ userEvents = 2
    /\ viewport # InitialViewport
    /\ currentInput = <<"a">>
    /\ observed = <<>>
    /\ Len(sent) = 1
    /\ sent[1] \notin net
    /\ Len(inputLog) <= 1


\* C18: the initial resize precedes the output.  The first append issued
\* is the window record of the start; while it is in flight no read has
\* been requested or opened and no record delivered or rendered; once it
\* has settled, appended or dropped, the read subscription is opened.  It
\* carries the viewport's size, the viewport being the one of the start as
\* long as no resize is observed in STREAMING.
C18_InitialResizeFirst ==
    sent # <<>> =>
        /\ sent[1].arg.headers[1] = <<"type", "window">>
        /\ sent[1].arg.body = <<>>
        /\ (\A i \in 1..Len(observed) : observed[i].event # "resize") =>
              sent[1].arg.headers =
                  << <<"type", "window">>, <<"rows", toString(viewport[2])>>,
                     <<"cols", toString(viewport[1])>> >>
        /\ IF sent[1] \in net
           THEN /\ reads = <<>>
                /\ reader.pc = "none"
                /\ delivered = <<>>
                /\ rendered = <<>>
                /\ \A r \in net : r.kind # "read"
           ELSE /\ Len(reads) = 1
                /\ reader.pc # "none"

\* The append of the initial window record failed, and an output record
\* has been rendered.
C18_StreamingAfterFailedResize ==
    /\ sent # <<>>
    /\ sent[1] \notin net
    /\ \A k \in 1..Len(inputLog) : inputLog[k].id # sent[1].id
    /\ rendered # <<>>


\* C19: the input log has the records of one client in the order of the
\* user's events: of two events observed in STREAMING whose records are
\* both in the input log, the record of the earlier event comes first.
C19_InputOrder ==
    \A a, b \in 2..Len(sent) :
        \A ka, kb \in 1..Len(inputLog) :
            (a < b /\ inputLog[ka].id = sent[a].id /\ inputLog[kb].id = sent[b].id) =>
                ka < kb

\* C20: STREAMING is absorbing.  No step leaves it: not a failed append,
\* not a read that fails to open, not an error or the end of the read
\* stream, not a line submitted with Enter.
C20_StreamingAbsorbing == [][setupState = "STREAMING" => setupState' = "STREAMING"]_vars

\* After a streaming error the state is STREAMING and a keystroke observed
\* after the error is in the input log.
C20_ForwardingAfterStreamingError ==
    /\ setupState = "STREAMING"
    /\ reader.pc \in {"failed", "returned"}
    /\ \E i \in 1..Len(messages) : messages[i] = "Streaming error"
    /\ Len(sent) > reader.sentBefore
    /\ \E k \in 1..Len(inputLog) :
          /\ inputLog[k].id = sent[Len(sent)].id
          /\ inputLog[k].record.headers = << <<"type", "keystroke">> >>


\* C21: setup input is not contaminated across steps.  When a setup step
\* stores its value (basin, session or token: processSetupInput in a
\* collecting state), the value has no character typed before that step's
\* prompt was issued; so none typed while a connection test was in flight
\* is in a token submitted after the test failed.  The stale characters
\* lead the line, and trim removes of them only white space.
C21_SetupInputClean ==
    [][(/\ Resumes("L135")
        /\ setupState \in {"COLLECTING_BASIN", "COLLECTING_SESSION", "COLLECTING_TOKEN"}
        /\ setupState' # setupState) =>
           \A i \in 1..staleChars : IsSpace(currentInput[i])]_vars

=============================================================================
